---- MODULE Spec2Model ----
(***************************************************************************)
(* Model of the Factorio mod updater: the GameMod release model            *)
(* (src/models/game_mod.py), the reconciliation of a local mod against     *)
(* its remote record and the concurrent update check                       *)
(* (src/web_api/mod_synchronizer.py), the catalog request                  *)
(* (src/web_api/factorio_web_api.py) and the downloads with their retry    *)
(* and hash verification (src/web_api/mod_downloader.py), the changelog    *)
(* parser (src/models/changelog.py), the scan of the mods directory        *)
(* (src/mod_processor/parse_mod_files.py), the ignore list and download    *)
(* phase of main (src/main.py) and the console singleton                   *)
(* (src/singleton_console.py).                                             *)
(*                                                                         *)
(* Python values are tagged records, so that the duck typing of the code   *)
(* (attribute access on whatever a call returned) can be modelled: an      *)
(* attribute read on a value that has no such attribute raises             *)
(* AttributeError.  A call is modelled by an operator returning a record   *)
(* whose field exc names the exception that escaped ("" when the call      *)
(* returned) and whose other fields give the return value and the          *)
(* objects the call mutated.                                               *)
(***************************************************************************)
EXTENDS Integers, Sequences, FiniteSets, TLC

(* ---------------- bounds of the model ---------------- *)

\* most releases the local scan adds to one mod
MaxLocalReleases == 2

\* most releases in one remote catalog document
MaxRemoteReleases == 2

\* most lines of a changelog text
MaxChangelogLines == 4

\* the threads that call ConsoleSingleton()
NumThreads == 3

(* ---------------- Python values ---------------- *)

NoneV == [kind |-> "None"]

PyStr(s) == [kind |-> "str", s |-> s]

\* a datetime: t is the instant, aware tells whether it carries a UTC offset
Datetime(t, aware) == [kind |-> "datetime", t |-> t, aware |-> aware]

\* datetime.min is a naive datetime, below every other instant
DatetimeMin == Datetime(0, FALSE)

\* instant of the literal "2000-01-25T21:45:21.794000Z"
SentinelInstant == 1

\* the timestamp strings the catalog sends: an instant and a trailing "Z";
\* they are all later than the sentinel
CatalogDateStrings == { [kind |-> "str", t |-> 2, z |-> TRUE], [kind |-> "str", t |-> 3, z |-> TRUE] }

SentinelDateString == [kind |-> "str", t |-> SentinelInstant, z |-> TRUE]

\* parse_datetime: None (or "") gives None; "Z" is replaced by "+00:00", so
\* the result is aware exactly when the string carried the "Z"
parse_datetime(date_str) ==
  IF date_str.kind = "None" THEN NoneV ELSE Datetime(date_str.t, date_str.z)

(* ---------------- versions ---------------- *)

\* a version string is the sequence of its dot-separated numbers; the empty
\* string (the default of Release.version) stands for a malformed version
BadVersion == <<>>

\* versions in the file names the local scan recognises (\d+\.\d+\.\d+)
ScanVersions == { <<1, 9, 0>>, <<1, 10, 0>> }

\* well-formed version strings in catalog documents
CatalogVersions == { <<1, 9>>, <<1, 10, 0>> }

\* hashes of the local archives, and hashes the catalog lists
ScanSha1s == { "a" }

CatalogSha1s == { "a", "b" }

VersionValid(v) == v # BadVersion

RECURSIVE StripZeros(_)
\* packaging compares release tuples with trailing zeros removed
StripZeros(v) ==
  IF v = <<>> THEN <<>>
  ELSE IF v[Len(v)] = 0 THEN StripZeros(SubSeq(v, 1, Len(v) - 1)) ELSE v

\* version.parse(s) of a well-formed s, as its comparison key
version_parse(v) == StripZeros(v)

RECURSIVE TupleLess(_, _)
\* Python's < on tuples
TupleLess(a, b) ==
  IF a = <<>> THEN b # <<>>
  ELSE IF b = <<>> THEN FALSE
  ELSE IF Head(a) = Head(b) THEN TupleLess(Tail(a), Tail(b))
  ELSE Head(a) < Head(b)

\* version.parse(a) < version.parse(b)
VersionLess(a, b) == TupleLess(version_parse(a), version_parse(b))

VersionEq(a, b) == ~VersionLess(a, b) /\ ~VersionLess(b, a)

(* ---------------- Release and GameMod ---------------- *)

Release(v, h, at) == [kind |-> "Release", version |-> v, sha1 |-> h, released_at |-> at]

\* a release made by ModFileRecognizer.process_mod_file: no released_at
ScanReleases == { Release(v, h, NoneV) : v \in ScanVersions, h \in ScanSha1s }

\* one entry of "releases" in a catalog document (released_at still a string)
\* with every well-formed entry, and one entry whose version is malformed
CatalogReleaseDocs ==
  { [version |-> v, sha1 |-> h, released_at |-> d] :
      v \in CatalogVersions, h \in CatalogSha1s, d \in CatalogDateStrings \cup {NoneV} }
  \cup { [version |-> BadVersion, sha1 |-> "b", released_at |-> SentinelDateString] }

SeqsUpTo(S, n) == UNION { [1..k -> S] : k \in 0..n }

GameMod(name, releases) == [kind |-> "GameMod", name |-> name, releases |-> releases]

\* GameMod.from_json, the fields the reconciliation reads
from_json(data) ==
  GameMod(data.name,
          [i \in 1..Len(data.releases) |->
             Release(data.releases[i].version, data.releases[i].sha1,
                     parse_datetime(data.releases[i].released_at))])

\* the second component of the sort key: r.released_at or datetime.min
SortDate(r) == IF r.released_at.kind = "None" THEN DatetimeMin ELSE r.released_at

\* key(r1) < key(r2) for the keys (version.parse(r.version), SortDate(r))
KeyLess(r1, r2) ==
  \/ VersionLess(r1.version, r2.version)
  \/ /\ VersionEq(r1.version, r2.version)
     /\ SortDate(r1).t < SortDate(r2).t

\* insert x into a list sorted in descending key order, after the elements
\* whose key is not below x's (sorted(..., reverse=True) is stable)
InsertDesc(s, x) ==
  LET k == Cardinality({ i \in 1..Len(s) : ~KeyLess(s[i], x) })
  IN  SubSeq(s, 1, k) \o << x >> \o SubSeq(s, k + 1, Len(s))

RECURSIVE sorted_reverse(_)
sorted_reverse(rs) ==
  IF rs = <<>> THEN <<>>
  ELSE InsertDesc(sorted_reverse(SubSeq(rs, 1, Len(rs) - 1)), rs[Len(rs)])

\* two keys the sort has to order whose versions are equal and whose dates
\* are one naive and one aware: < on those datetimes raises TypeError.  The
\* two releases are neighbours in every sorted order, so every comparison
\* sort compares them.
MixedTie(rs) ==
  \E i, j \in 1..Len(rs) :
     /\ i # j
     /\ VersionEq(rs[i].version, rs[j].version)
     /\ SortDate(rs[i]).aware # SortDate(rs[j]).aware

\* GameMod.get_latest_release.  The keys of all releases are computed
\* first (version.parse raises InvalidVersion), then the list is sorted.
get_latest_release(rs) ==
  IF rs = <<>> THEN [exc |-> "", ret |-> NoneV]
  ELSE IF \E i \in 1..Len(rs) : ~VersionValid(rs[i].version)
       THEN [exc |-> "InvalidVersion", ret |-> NoneV]
  ELSE IF MixedTie(rs) THEN [exc |-> "TypeError", ret |-> NoneV]
  ELSE [exc |-> "", ret |-> sorted_reverse(rs)[1]]

\* a variant of find_release_by_sha1 that returns the release itself
find_release_by_sha1_release(rs, sha1) ==
  LET hits == { i \in 1..Len(rs) : rs[i].sha1 = sha1 }
  IN  IF hits = {} THEN NoneV ELSE rs[CHOOSE i \in hits : \A j \in hits : i <= j]

\* GameMod.find_release_by_sha1: the version string of the first release
\* with that hash, or None
find_release_by_sha1(rs, sha1) ==
  LET hits == { i \in 1..Len(rs) : rs[i].sha1 = sha1 }
  IN  IF hits = {} THEN NoneV
      ELSE PyStr(rs[CHOOSE i \in hits : \A j \in hits : i <= j].version)

(* ---------------- GameMod.compare_with_remote ---------------- *)

\* a variant of the condition with >= in place of >
KeepsNewer_or_equal(latest, release) ==
  latest.kind = "None" \/ ~VersionLess(release.version, latest.version)

\* the condition of the comprehension in compare_with_remote:
\* latest_local_release is None or parse(release.version) > parse(latest.version)
KeepsNewer(latest, release) ==
  latest.kind = "None" \/ VersionLess(latest.version, release.version)

\* a variant of compare_with_remote that compares the remote releases with
\* the first remote release instead of the latest local one
compare_with_remote_wrong_mod(self, remote_mod) ==
  LET rs  == remote_mod.releases
      new == SelectSeq(rs, LAMBDA r : VersionValid(r.version) /\ VersionValid(rs[1].version)
                                       /\ VersionLess(rs[1].version, r.version))
      out == [remote_mod EXCEPT !.releases = new]
  IN  [exc |-> "", ret |-> IF new = <<>> THEN NoneV ELSE out, remote_mod |-> out]

\* GameMod.compare_with_remote(self, remote_mod): exc, the value returned
\* and remote_mod as the call leaves it.  An exception leaves remote_mod
\* as it was: the assignment to remote_mod.releases has not happened yet.
compare_with_remote(self, remote_mod) ==
  LET latest == get_latest_release(self.releases)
      rs     == remote_mod.releases
  IN  IF latest.exc # "" THEN [exc |-> latest.exc, ret |-> NoneV, remote_mod |-> remote_mod]
      ELSE IF latest.ret.kind # "None" /\ \E i \in 1..Len(rs) : ~VersionValid(rs[i].version)
           THEN [exc |-> "InvalidVersion", ret |-> NoneV, remote_mod |-> remote_mod]
      ELSE LET new == SelectSeq(rs, LAMBDA r : KeepsNewer(latest.ret, r))
               out == [remote_mod EXCEPT !.releases = new]
           IN  [exc |-> "", ret |-> IF new = <<>> THEN NoneV ELSE out, remote_mod |-> out]

(* ------- ModSynchronizer.find_new_releases_from_remote ------- *)

\* reading attribute released_at of a value: only a Release has it
GetReleasedAt(x) ==
  IF x.kind = "Release" THEN [exc |-> "", val |-> x.released_at]
  ELSE [exc |-> "AttributeError", val |-> NoneV]

\* the body of the back-fill loop for one local release: the try block
\* and its "except ValueError" handler
BackfillOne(release, remote_mod) ==
  LET got == GetReleasedAt(find_release_by_sha1(remote_mod.releases, release.sha1))
  IN  IF got.exc = "" THEN [exc |-> "", release |-> [release EXCEPT !.released_at = got.val]]
      ELSE IF got.exc = "ValueError"
           THEN [exc |-> "", release |-> [release EXCEPT !.released_at = parse_datetime(SentinelDateString)]]
      ELSE [exc |-> got.exc, release |-> release]

RECURSIVE Backfill(_, _, _)
\* the back-fill loop from release i on: the local releases as the loop
\* leaves them, and the exception that ended it
Backfill(rs, i, remote_mod) ==
  IF i > Len(rs) THEN [exc |-> "", releases |-> rs]
  ELSE LET one == BackfillOne(rs[i], remote_mod)
       IN  IF one.exc # "" THEN [exc |-> one.exc, releases |-> rs]
           ELSE Backfill([rs EXCEPT ![i] = one.release], i + 1, remote_mod)

\* a > b on two released_at values
DateGreater(a, b) ==
  IF b.kind = "None" THEN [exc |-> "TypeError", val |-> FALSE]
  ELSE IF a.aware # b.aware THEN [exc |-> "TypeError", val |-> FALSE]
  ELSE [exc |-> "", val |-> a.t > b.t]

\* the condition of the comprehension for one remote release:
\* release.released_at and (release.released_at > local_mod.get_latest_release().released_at)
NewerByDate(release, local_releases) ==
  IF release.released_at.kind = "None" THEN [exc |-> "", val |-> FALSE]
  ELSE LET latest == get_latest_release(local_releases)
       IN  IF latest.exc # "" THEN [exc |-> latest.exc, val |-> FALSE]
           ELSE LET at == GetReleasedAt(latest.ret)
                IN  IF at.exc # "" THEN [exc |-> at.exc, val |-> FALSE]
                    ELSE DateGreater(release.released_at, at.val)

\* find_new_releases_from_remote(local_mod, remote_mod): exc, the value
\* returned, and both mods as the call leaves them
find_new_releases_from_remote(local_mod, remote_mod) ==
  LET filled == Backfill(local_mod.releases, 1, remote_mod)
      local  == [local_mod EXCEPT !.releases = filled.releases]
      rs     == remote_mod.releases
      raising == { i \in 1..Len(rs) : NewerByDate(rs[i], local.releases).exc # "" }
  IN  IF filled.exc # ""
      THEN [exc |-> filled.exc, ret |-> NoneV, local_mod |-> local, remote_mod |-> remote_mod]
      ELSE IF raising # {}
      THEN [exc |-> NewerByDate(rs[CHOOSE i \in raising : \A j \in raising : i <= j], local.releases).exc,
            ret |-> NoneV, local_mod |-> local, remote_mod |-> remote_mod]
      ELSE LET new == SelectSeq(rs, LAMBDA r : NewerByDate(r, local.releases).val)
               out == [remote_mod EXCEPT !.releases = new]
           IN  [exc |-> "", ret |-> IF new = <<>> THEN NoneV ELSE out,
                local_mod |-> local, remote_mod |-> out]

(* ---------------- the state ---------------- *)

VARIABLES
  local_mod,     \* the GameMod the local scan builds
  remote_mod,    \* the GameMod made from the catalog document, None before the fetch
  op,            \* the last operation called on them
  arg,           \* which mod a query was called on
  ret,           \* the value the last call returned
  exc,           \* the exception the last call raised, "" when it returned
  pre_local,     \* local_mod.releases when the last reconciliation call began
  pre_remote,    \* remote_mod.releases when the last reconciliation call began
  prev,          \* what the call before the last returned, when both were compare_with_remote
  sync_pc,       \* find_updates_of_mods_list: "idle", "running" or "returned"
  sync_mods,     \* its argument local_mods, as the call has left the mods so far
  sync_input,    \* its argument local_mods, as passed
  futures,       \* per mod: Pending, or what the get_mod_details task produced
  handled,       \* the futures the as_completed loop has consumed, in that order
  updated_mods,  \* the list the call builds
  requests,      \* per mod: the requests.get calls its get_mod_details task has made
  dl_pc,         \* the download call: "idle", "running", "aborting", "specific", "returned" or "raised"
  dl_input,      \* download_latest_releases: its argument game_mods
  dl_ignore,     \* download_latest_releases: its argument ignore_list
  dl_tasks,      \* the download tasks of the call, one per mod to download
  dl_handled,    \* the futures the as_completed loop of the batch has consumed
  dl_report,     \* per consumed future: what the batch printed for its mod
  dl_exc,        \* the exception that escaped the download call, None when none did
  files,         \* the download directory: per path the bytes of the file, or "absent"
  main_pc,       \* main: "start", "loaded", "waiting", "downloading", "returned", "completed" or "crashed"
  ignore_file,   \* the ignore list file: whether it exists, and its lines
  ignore_first,  \* main: the ignore list read before the update check
  available_updates, \* main: the list find_updates_of_mods_list returned
  confirmed_file, \* the ignore list file as it was when the user confirmed
  scan_pc,       \* process_mod_files: "idle", "running" or "returned"
  scan_input,    \* its argument mods, as passed
  scan_mods,     \* the GameMod objects of that list, as the tasks have left them
  scan_tasks,    \* per mod: the archives found for it and the progress of its task
  scan_handled,  \* the futures the as_completed loop of the scan has consumed, in that order
  instance,      \* SingletonMeta._instance: None or the instance stored
  inits,         \* how many times the body of ConsoleSingleton.__init__ has run
  threads        \* per thread calling ConsoleSingleton(): its position and what it holds

vars == << local_mod, remote_mod, op, arg, ret, exc, pre_local, pre_remote, prev,
           sync_pc, sync_mods, sync_input, futures, handled, updated_mods, requests,
           dl_pc, dl_input, dl_ignore, dl_tasks, dl_handled, dl_report, dl_exc, files,
           main_pc, ignore_file, ignore_first, available_updates, confirmed_file,
           scan_pc, scan_input, scan_mods, scan_tasks, scan_handled,
           instance, inits, threads >>

mod_vars == << local_mod, remote_mod, op, arg, ret, exc, pre_local, pre_remote, prev >>

sync_vars == << sync_pc, sync_mods, sync_input, futures, handled, updated_mods, requests >>

dl_vars == << dl_pc, dl_input, dl_ignore, dl_tasks, dl_handled, dl_report, dl_exc, files >>

main_vars == << main_pc, ignore_file, ignore_first, available_updates, confirmed_file >>

scan_vars == << scan_pc, scan_input, scan_mods, scan_tasks, scan_handled >>

con_vars == << instance, inits, threads >>

\* the variables of main's download phase, of the scan and of the console
extra_vars == << main_vars, scan_vars, con_vars >>

NoCall == [kind |-> "NoCall"]

Returned(v) == [kind |-> "Returned", ret |-> v]

Pending == [kind |-> "Pending"]

Raised(e) == [kind |-> "Raised", exc |-> e]

ModName == "foo"

\* the ignore list file: absent, or holding these lines
NoFile == [exists |-> FALSE, lines |-> <<>>]

File(lines) == [exists |-> TRUE, lines |-> lines]

\* the names a catalog document can carry in its "name" field: the name
\* asked for, or another one
CatalogNames == { ModName, "bar" }

Init ==
  /\ local_mod = GameMod(ModName, <<>>)
  /\ remote_mod = NoneV
  /\ op = "init"
  /\ arg = ""
  /\ ret = NoneV
  /\ exc = ""
  /\ pre_local = <<>>
  /\ pre_remote = <<>>
  /\ prev = NoCall
  /\ sync_pc = "idle"
  /\ sync_mods = <<>>
  /\ sync_input = <<>>
  /\ futures = <<>>
  /\ handled = <<>>
  /\ updated_mods = <<>>
  /\ requests = <<>>
  /\ dl_pc = "idle"
  /\ dl_input = <<>>
  /\ dl_ignore = <<>>
  /\ dl_tasks = <<>>
  /\ dl_handled = {}
  /\ dl_report = <<>>
  /\ dl_exc = NoneV
  /\ files = [p \in {} |-> "absent"]
  /\ main_pc = "start"
  /\ ignore_file = NoFile
  /\ ignore_first = <<>>
  /\ available_updates = <<>>
  /\ confirmed_file = NoFile
  /\ scan_pc = "idle"
  /\ scan_input = <<>>
  /\ scan_mods = <<>>
  /\ scan_tasks = <<>>
  /\ scan_handled = <<>>
  /\ instance = NoneV
  /\ inits = 0
  /\ threads = <<>>

(* ---------------- operations on one mod and its remote record ---------------- *)

\* ModFileRecognizer.process_mod_file finds one more archive: mod.add_release(release)
add_release ==
  /\ remote_mod = NoneV
  /\ Len(local_mod.releases) < MaxLocalReleases
  /\ \E r \in ScanReleases :
       local_mod' = [local_mod EXCEPT !.releases = Append(@, r)]
  /\ op' = "add_release"
  /\ arg' = ""
  /\ ret' = NoneV
  /\ exc' = ""
  /\ pre_local' = <<>>
  /\ pre_remote' = <<>>
  /\ prev' = NoCall
  /\ UNCHANGED << remote_mod, sync_vars, dl_vars, extra_vars >>

\* FactorioAPIClient.get_mod_details: the remote GameMod is made from the document
fetch_remote ==
  /\ remote_mod = NoneV
  /\ \E n \in CatalogNames : \E docs \in SeqsUpTo(CatalogReleaseDocs, MaxRemoteReleases) :
       remote_mod' = from_json([name |-> n, releases |-> docs])
  /\ op' = "get_mod_details"
  /\ arg' = ""
  /\ ret' = NoneV
  /\ exc' = ""
  /\ pre_local' = <<>>
  /\ pre_remote' = <<>>
  /\ prev' = NoCall
  /\ UNCHANGED << local_mod, sync_vars, dl_vars, extra_vars >>

\* local_mod.get_latest_release()
call_get_latest_release_local ==
  /\ LET res == get_latest_release(local_mod.releases)
     IN  /\ ret' = res.ret
         /\ exc' = res.exc
  /\ op' = "get_latest_release"
  /\ arg' = "local"
  /\ pre_local' = local_mod.releases
  /\ pre_remote' = <<>>
  /\ prev' = NoCall
  /\ UNCHANGED << local_mod, remote_mod, sync_vars, dl_vars, extra_vars >>

\* remote_mod.get_latest_release()
call_get_latest_release_remote ==
  /\ remote_mod # NoneV
  /\ LET res == get_latest_release(remote_mod.releases)
     IN  /\ ret' = res.ret
         /\ exc' = res.exc
  /\ op' = "get_latest_release"
  /\ arg' = "remote"
  /\ pre_local' = <<>>
  /\ pre_remote' = remote_mod.releases
  /\ prev' = NoCall
  /\ UNCHANGED << local_mod, remote_mod, sync_vars, dl_vars, extra_vars >>

\* local_mod.compare_with_remote(remote_mod)
call_compare_with_remote ==
  /\ remote_mod # NoneV
  /\ LET res == compare_with_remote(local_mod, remote_mod)
     IN  /\ ret' = res.ret
         /\ exc' = res.exc
         /\ remote_mod' = res.remote_mod
  /\ op' = "compare_with_remote"
  /\ arg' = ""
  /\ pre_local' = local_mod.releases
  /\ pre_remote' = remote_mod.releases
  /\ prev' = IF op = "compare_with_remote" /\ exc = "" THEN Returned(ret) ELSE NoCall
  /\ UNCHANGED << local_mod, sync_vars, dl_vars, extra_vars >>

\* ModSynchronizer.find_new_releases_from_remote(local_mod, remote_mod)
call_find_new_releases_from_remote ==
  /\ remote_mod # NoneV
  /\ LET res == find_new_releases_from_remote(local_mod, remote_mod)
     IN  /\ ret' = res.ret
         /\ exc' = res.exc
         /\ local_mod' = res.local_mod
         /\ remote_mod' = res.remote_mod
  /\ op' = "find_new_releases_from_remote"
  /\ arg' = ""
  /\ pre_local' = local_mod.releases
  /\ pre_remote' = remote_mod.releases
  /\ prev' = NoCall
  /\ UNCHANGED << sync_vars, dl_vars, extra_vars >>

\* remote_mod.find_release_by_sha1(sha1)
call_find_release_by_sha1 ==
  /\ remote_mod # NoneV
  /\ \E sha1 \in CatalogSha1s :
       /\ ret' = find_release_by_sha1(remote_mod.releases, sha1)
       /\ arg' = sha1
  /\ exc' = ""
  /\ op' = "find_release_by_sha1"
  /\ pre_local' = <<>>
  /\ pre_remote' = remote_mod.releases
  /\ prev' = NoCall
  /\ UNCHANGED << local_mod, remote_mod, sync_vars, dl_vars, extra_vars >>

Next ==
  \/ add_release
  \/ fetch_remote
  \/ call_get_latest_release_local
  \/ call_get_latest_release_remote
  \/ call_compare_with_remote
  \/ call_find_new_releases_from_remote
  \/ call_find_release_by_sha1

Spec == Init /\ [][Next]_vars

(* ------- ModSynchronizer.find_updates_of_mods_list ------- *)

\* the names of the mods of the batch, in the order of local_mods
SyncNames == << "foo", "bar" >>

\* the catalog entries of the batch: one hash, one date or none
SyncReleaseDocs ==
  { d \in CatalogReleaseDocs :
      /\ d.sha1 = "a"
      /\ VersionValid(d.version)
      /\ d.released_at \in { NoneV, [kind |-> "str", t |-> 2, z |-> TRUE] } }

\* the exceptions of requests.get / raise_for_status that get_mod_details catches
FetchErrors == { "HTTPError", "ConnectionError", "Timeout" }

\* what the catalog can answer to the request for a mod: a request error,
\* a document that lacks a key from_json indexes, or a document
Responses(name) ==
  { [kind |-> "error", exc |-> e] : e \in FetchErrors }
  \cup { [kind |-> "baddoc"] }
  \cup { [kind |-> "doc", data |-> [name |-> name, releases |-> docs]] :
           docs \in SeqsUpTo(SyncReleaseDocs, MaxRemoteReleases) }

\* FactorioAPIClient.get_mod_details, given what its request meets: the
\* number of requests.get calls it makes and what the task produces (None
\* after a request error, the KeyError from_json lets escape, or the GameMod)
get_mod_details(response) ==
  IF response.kind = "error" THEN [requests |-> 1, out |-> NoneV]
  ELSE IF response.kind = "baddoc" THEN [requests |-> 1, out |-> Raised("KeyError")]
  ELSE [requests |-> 1, out |-> from_json(response.data)]

\* find_updates_of_mods_list(local_mods) is called: the tasks are submitted
sync_call ==
  /\ sync_pc = "idle"
  /\ \E rss \in [1..Len(SyncNames) -> SeqsUpTo(ScanReleases, 1)] :
       /\ sync_input' = [i \in 1..Len(SyncNames) |-> GameMod(SyncNames[i], rss[i])]
       /\ sync_mods' = sync_input'
  /\ futures' = [i \in 1..Len(SyncNames) |-> Pending]
  /\ requests' = [i \in 1..Len(SyncNames) |-> 0]
  /\ handled' = <<>>
  /\ updated_mods' = <<>>
  /\ sync_pc' = "running"
  /\ UNCHANGED << mod_vars, dl_vars, extra_vars >>

\* a worker thread finishes get_mod_details for mod i
task_done(i) ==
  /\ sync_pc = "running"
  /\ futures[i] = Pending
  /\ \E response \in Responses(sync_input[i].name) :
       LET res == get_mod_details(response)
       IN  /\ futures' = [futures EXCEPT ![i] = res.out]
           /\ requests' = [requests EXCEPT ![i] = res.requests]
  /\ UNCHANGED << sync_pc, sync_mods, sync_input, handled, updated_mods, mod_vars, dl_vars, extra_vars >>

\* a variant of the handler that keeps the first failed mod in the list
on_error_keeps_first(updated, mod) == IF updated = <<>> THEN << mod >> ELSE updated

\* the "except Exception" handler of the loop: console.error, the list is
\* left as it is
on_error(updated, mod) == updated

\* the futures consumed so far
Handled == { handled[k] : k \in 1..Len(handled) }

\* one pass of the as_completed loop, for a finished future not yet consumed:
\* the try block and its "except Exception" handler
handle_future(i) ==
  /\ sync_pc = "running"
  /\ futures[i] # Pending
  /\ i \notin Handled
  /\ handled' = Append(handled, i)
  /\ IF futures[i].kind = "GameMod"
     THEN LET res == find_new_releases_from_remote(sync_mods[i], futures[i])
          IN  /\ sync_mods' = [sync_mods EXCEPT ![i] = res.local_mod]
              /\ updated_mods' = IF res.exc # "" THEN on_error(updated_mods, res.local_mod)
                                 ELSE IF res.ret.kind # "None" THEN Append(updated_mods, res.ret)
                                 ELSE updated_mods
     ELSE /\ updated_mods' = IF futures[i].kind = "Raised"
                             THEN on_error(updated_mods, sync_mods[i])
                             ELSE updated_mods
          /\ UNCHANGED sync_mods
  /\ UNCHANGED << sync_pc, sync_input, futures, requests, mod_vars, dl_vars, extra_vars >>

\* every future has been consumed: return updated_mods
sync_return ==
  /\ sync_pc = "running"
  /\ Len(handled) = Len(SyncNames)
  /\ sync_pc' = "returned"
  /\ UNCHANGED << sync_mods, sync_input, futures, handled, updated_mods, requests, mod_vars, dl_vars, extra_vars >>

NextSync ==
  \/ sync_call
  \/ \E i \in 1..Len(SyncNames) : task_done(i)
  \/ \E i \in 1..Len(SyncNames) : handle_future(i)
  \/ sync_return

SpecSync == Init /\ [][NextSync]_vars

(* ---------------- ModDownloader and ModDownloadManager ---------------- *)

\* an exception and its message
Error(type, msg) == [kind |-> "Raised", exc |-> type, msg |-> msg]

\* the names of the mods handed to download_latest_releases, in list order
DlNames == << "foo", "bar" >>

\* the release lists of the mods handed to the download calls (remote
\* records): no release, one release, two releases, a malformed version
DlReleaseLists ==
  { <<>>,
    << Release(<<1, 10, 0>>, "a", Datetime(2, TRUE)) >>,
    << Release(<<1, 9>>, "b", Datetime(2, TRUE)), Release(<<1, 10, 0>>, "a", Datetime(3, TRUE)) >>,
    << Release(BadVersion, "a", Datetime(2, TRUE)) >> }

\* the ignore lists given to download_latest_releases
IgnoreLists == { <<>>, << "bar" >> }

\* the bodies a download can deliver, as the bytes written to the file
Contents == { "zipA", "zipB" }

\* FileHasher.calculate_sha1 of the bytes of a file
sha1_of(bytes) ==
  CASE bytes = "zipA" -> "a"
    [] bytes = "zipB" -> "b"
    [] bytes = "" -> "da39"
    [] OTHER -> "other"

\* the exceptions of requests that _download_from_url turns into DownloadError
NetworkErrors == { "HTTPError", "ConnectionError", "Timeout" }

\* what one _download_from_url call can meet: a network error, an error
\* opening the file, an empty body, or a body
AttemptOutcomes == NetworkErrors \cup { "OSError", "empty" } \cup Contents

\* os.path.join(download_dir, f"{name}_{version}.zip")
file_path(name, version) == << name, "_", version, ".zip" >>

\* the file at file_path after one _download_from_url call: HTTPError (from
\* raise_for_status) and Timeout come before the file is opened, and so does
\* the OSError of open; a ConnectionError comes while the body is streamed
\* into the file
written(before, outcome) ==
  IF outcome \in Contents THEN outcome
  ELSE IF outcome = "empty" THEN ""
  ELSE IF outcome = "ConnectionError" THEN "partial"
  ELSE before

\* what _download_from_url raises: the except clause turns the network
\* errors into DownloadError, everything else escapes as it is
download_from_url_exc(outcome) ==
  IF outcome \in NetworkErrors THEN Error("DownloadError", "Network error during download")
  ELSE IF outcome = "empty" THEN Error("EmptyFileError", "Downloaded file is empty.")
  ELSE Error(outcome, "")

\* a variant of the retry condition that retries after every exception
RetryOn_any(e) == TRUE

\* _download_with_retry: "except DownloadError" around the first attempt
RetryOn(e) == e.exc = "DownloadError"

\* a variant of the hash comparison that accepts every file
HashMatches_any(downloaded_sha1, release) == TRUE

\* the comparison of download_latest_release / download_specific_release:
\* not (downloaded_sha1 != release.sha1)
HashMatches(downloaded_sha1, release) == downloaded_sha1 = release.sha1

\* a download task as submitted: the call it runs ("latest" or "specific"),
\* its mod, the release it downloads (None until known), its position, the
\* outcomes of its download attempts, the hash it computed, its result
NewTask(call, game_mod, release) ==
  [call |-> call, mod |-> game_mod, release |-> release, pc |-> "submitted",
   attempts |-> <<>>, hashed |-> NoneV, result |-> Pending]

Finish(task, result) == [task EXCEPT !.pc = "done", !.result = result]

\* ModValidator.validate and the rest of download_mod up to the first attempt
download_mod_begin(task, release, dir_ok) ==
  IF task.mod.name = "" \/ release.version = BadVersion
  THEN Finish(task, Error("ValueError", "Mod name and version must be provided."))
  ELSE IF ~dir_ok THEN Finish(task, Error("ValueError", "Invalid path"))
  ELSE [task EXCEPT !.pc = "attempt", !.release = release]

\* the task up to its first download attempt: download_latest_release picks
\* the latest release (and returns None when there is none),
\* download_specific_release takes the release it was given
task_begin_result(task, dir_ok) ==
  IF task.call = "specific" THEN download_mod_begin(task, task.release, dir_ok)
  ELSE LET latest == get_latest_release(task.mod.releases)
       IN  IF latest.exc # "" THEN Finish(task, Error(latest.exc, ""))
           ELSE IF latest.ret = NoneV THEN Finish(task, Returned(NoneV))
           ELSE download_mod_begin(task, latest.ret, dir_ok)

\* one _download_from_url call of _download_with_retry: the first attempt is
\* followed by a second when RetryOn holds of what it raised; what the
\* second raises escapes (download_mod logs a DownloadError and re-raises it)
task_attempt_result(task, outcome) ==
  LET t == [task EXCEPT !.attempts = Append(@, outcome)]
  IN  IF outcome \in Contents THEN [t EXCEPT !.pc = "downloaded"]
      ELSE IF Len(task.attempts) = 0 /\ RetryOn(download_from_url_exc(outcome)) THEN t
      ELSE Finish(t, download_from_url_exc(outcome))

\* the verification after download_mod returned file_path: calculate_sha1
\* (ModProcessingError when the file cannot be read), the comparison with
\* the release's sha1, DownloadError on a mismatch, else file_path
task_verify_result(task, read_ok, bytes) ==
  IF ~read_ok THEN Finish(task, Error("ModProcessingError", "Error reading file"))
  ELSE LET t == [task EXCEPT !.hashed = PyStr(sha1_of(bytes))]
       IN  IF ~HashMatches(sha1_of(bytes), task.release)
           THEN Finish(t, Error("DownloadError", "SHA-1 hash does not match"))
           ELSE Finish(t, Returned(file_path(task.mod.name, task.release.version)))

\* a variant of mods_to_download that keeps every mod
mods_to_download_all(game_mods, ignore_list) == game_mods

\* mods_to_download: the mods whose name is not in the ignore list
mods_to_download(game_mods, ignore_list) ==
  SelectSeq(game_mods, LAMBDA m : \A k \in 1..Len(ignore_list) : ignore_list[k] # m.name)

\* download_latest_releases(game_mods, ignore_list) up to the submission of
\* the tasks: one download_latest_release task per mod to download
start_batch(game_mods, ignore_list) ==
  /\ dl_input' = game_mods
  /\ dl_ignore' = ignore_list
  /\ dl_tasks' = [i \in 1..Len(mods_to_download(game_mods, ignore_list)) |->
                    NewTask("latest", mods_to_download(game_mods, ignore_list)[i], NoneV)]
  /\ dl_pc' = "running"
  /\ dl_handled' = {}
  /\ dl_report' = <<>>
  /\ dl_exc' = NoneV

\* download_latest_releases(game_mods, ignore_list) is called with a list
\* of mods of different names
dl_call ==
  /\ dl_pc = "idle"
  /\ main_pc = "start"
  /\ \E rss \in [1..Len(DlNames) -> DlReleaseLists] : \E ignore_list \in IgnoreLists :
       start_batch([i \in 1..Len(DlNames) |-> GameMod(DlNames[i], rss[i])], ignore_list)
  /\ UNCHANGED << files, mod_vars, sync_vars, extra_vars >>

\* the names of a list that holds one mod twice: download_latest_releases
\* takes the list as it is, and neither it nor parse_mod_list_json, which
\* builds the list from mod-list.json, compares the names of the entries
SameNames == << "foo", "foo" >>

\* download_latest_releases(game_mods, ignore_list) is called with a list
\* that holds one mod twice
dl_call_same_name ==
  /\ dl_pc = "idle"
  /\ main_pc = "start"
  /\ \E rss \in [1..Len(SameNames) -> DlReleaseLists] : \E ignore_list \in IgnoreLists :
       start_batch([i \in 1..Len(SameNames) |-> GameMod(SameNames[i], rss[i])], ignore_list)
  /\ UNCHANGED << files, mod_vars, sync_vars, extra_vars >>

\* download_specific_release(game_mod, release) is called
call_download_specific_release ==
  /\ dl_pc = "idle"
  /\ main_pc = "start"
  /\ \E rs \in DlReleaseLists \ { <<>> } : \E k \in 1..Len(rs) :
       dl_tasks' = << NewTask("specific", GameMod(DlNames[1], rs), rs[k]) >>
  /\ dl_pc' = "specific"
  /\ UNCHANGED << dl_input, dl_ignore, dl_handled, dl_report, dl_exc, files, mod_vars, sync_vars, extra_vars >>

\* the calls during which download tasks run
Downloading == dl_pc \in { "running", "aborting", "specific" }

\* a task starts: the release is chosen and download_mod validates
task_begin(i) ==
  /\ Downloading
  /\ dl_tasks[i].pc = "submitted"
  /\ \E dir_ok \in BOOLEAN :
       dl_tasks' = [dl_tasks EXCEPT ![i] = task_begin_result(@, dir_ok)]
  /\ UNCHANGED << dl_pc, dl_input, dl_ignore, dl_handled, dl_report, dl_exc, files, mod_vars, sync_vars, extra_vars >>

\* a task makes one download attempt
task_attempt(i) ==
  /\ Downloading
  /\ dl_tasks[i].pc = "attempt"
  /\ \E outcome \in AttemptOutcomes :
       LET path   == file_path(dl_tasks[i].mod.name, dl_tasks[i].release.version)
           before == IF path \in DOMAIN files THEN files[path] ELSE "absent"
       IN  /\ dl_tasks' = [dl_tasks EXCEPT ![i] = task_attempt_result(@, outcome)]
           /\ files' = IF written(before, outcome) = "absent" THEN files
                        ELSE (path :> written(before, outcome)) @@ files
  /\ UNCHANGED << dl_pc, dl_input, dl_ignore, dl_handled, dl_report, dl_exc, mod_vars, sync_vars, extra_vars >>

\* a task hashes the file it downloaded and compares
task_verify(i) ==
  /\ Downloading
  /\ dl_tasks[i].pc = "downloaded"
  /\ \E read_ok \in BOOLEAN :
       LET path == file_path(dl_tasks[i].mod.name, dl_tasks[i].release.version)
       IN  dl_tasks' = [dl_tasks EXCEPT ![i] = task_verify_result(@, read_ok, files[path])]
  /\ UNCHANGED << dl_pc, dl_input, dl_ignore, dl_handled, dl_report, dl_exc, files, mod_vars, sync_vars, extra_vars >>

\* one pass of the as_completed loop of download_latest_releases:
\* future.result() in a try with "except DownloadError"; any other
\* exception leaves the loop
dl_collect(i) ==
  /\ dl_pc = "running"
  /\ dl_tasks[i].pc = "done"
  /\ i \notin dl_handled
  /\ dl_handled' = dl_handled \cup {i}
  /\ LET result == dl_tasks[i].result
     IN  IF result.kind = "Returned"
         THEN /\ dl_report' = (i :> "Successfully downloaded") @@ dl_report
              /\ UNCHANGED << dl_pc, dl_exc >>
         ELSE IF result.exc = "DownloadError"
         THEN /\ dl_report' = (i :> "Failed to download") @@ dl_report
              /\ UNCHANGED << dl_pc, dl_exc >>
         ELSE /\ dl_pc' = "aborting"
              /\ dl_exc' = result
              /\ UNCHANGED dl_report
  /\ UNCHANGED << dl_input, dl_ignore, dl_tasks, files, mod_vars, sync_vars, extra_vars >>

AllTasksDone == \A i \in DOMAIN dl_tasks : dl_tasks[i].pc = "done"

\* every future has been consumed: download_latest_releases returns
dl_return ==
  /\ dl_pc = "running"
  /\ dl_handled = DOMAIN dl_tasks
  /\ dl_pc' = "returned"
  /\ UNCHANGED << dl_input, dl_ignore, dl_tasks, dl_handled, dl_report, dl_exc, files, mod_vars, sync_vars, extra_vars >>

\* an exception left the loop: the executor's exit waits for the running
\* tasks, then the exception leaves download_latest_releases
dl_raise ==
  /\ dl_pc = "aborting"
  /\ AllTasksDone
  /\ dl_pc' = "raised"
  /\ UNCHANGED << dl_input, dl_ignore, dl_tasks, dl_handled, dl_report, dl_exc, files, mod_vars, sync_vars, extra_vars >>

\* download_specific_release returns or raises what its steps produced
specific_finish ==
  /\ dl_pc = "specific"
  /\ AllTasksDone
  /\ dl_pc' = IF dl_tasks[1].result.kind = "Returned" THEN "returned" ELSE "raised"
  /\ dl_exc' = IF dl_tasks[1].result.kind = "Returned" THEN NoneV ELSE dl_tasks[1].result
  /\ UNCHANGED << dl_input, dl_ignore, dl_tasks, dl_handled, dl_report, files, mod_vars, sync_vars, extra_vars >>

(* ---------------- main: the ignore list and the download phase ---------------- *)

\* the ignore list file as main can find it: none, an empty one, one that
\* names bar
IgnoreFiles == { NoFile, File(<<>>), File(<< "bar" >>) }

\* load_ignore_list: the lines of the file when it exists; otherwise the
\* file is created with the default entries and the empty list is returned
load_ignore_list(file) ==
  IF file.exists THEN [ret |-> file.lines, file |-> file]
  ELSE [ret |-> <<>>, file |-> File(<< "base", "quality" >>)]

\* the lists main takes from find_updates_of_mods_list: no mod, or foo and
\* bar with the releases to download. main is modelled for every list the
\* call is declared to return (List[GameMod]); the reconciliation as it is
\* returns only the empty one
UpdateLists ==
  { <<>> } \cup
  { << GameMod("foo", rs1), GameMod("bar", rs2) >> :
      rs1 \in { rs \in DlReleaseLists : rs # <<>> /\ \A k \in 1..Len(rs) : VersionValid(rs[k].version) },
      rs2 \in { rs \in DlReleaseLists : rs # <<>> /\ \A k \in 1..Len(rs) : VersionValid(rs[k].version) } }

\* main reads the ignore list before the scan and the update check
main_load_ignore_list ==
  /\ main_pc = "start"
  /\ dl_pc = "idle"
  /\ \E found \in IgnoreFiles :
       /\ ignore_first' = load_ignore_list(found).ret
       /\ ignore_file' = load_ignore_list(found).file
  /\ main_pc' = "loaded"
  /\ UNCHANGED << available_updates, confirmed_file, scan_vars, con_vars, mod_vars, sync_vars, dl_vars >>

\* main takes the result of the update check: it returns when the list is
\* empty, else it prompts and waits for the user
main_find_updates ==
  /\ main_pc = "loaded"
  /\ \E updates \in UpdateLists :
       /\ available_updates' = updates
       /\ main_pc' = IF Len(updates) = 0 THEN "returned" ELSE "waiting"
  /\ UNCHANGED << ignore_file, ignore_first, confirmed_file, scan_vars, con_vars, mod_vars, sync_vars, dl_vars >>

\* while main waits in wait_for_user_confirmation the user rewrites or
\* removes the ignore list file
user_edits_ignore_file ==
  /\ main_pc = "waiting"
  /\ \E file \in IgnoreFiles :
       /\ file # ignore_file
       /\ ignore_file' = file
  /\ UNCHANGED << main_pc, ignore_first, available_updates, confirmed_file, scan_vars, con_vars, mod_vars, sync_vars, dl_vars >>

\* the user enters 'n': main reads the ignore list again and start_download
\* calls download_latest_releases(available_updates, ignore_list)
main_start_download ==
  /\ main_pc = "waiting"
  /\ dl_pc = "idle"
  /\ confirmed_file' = ignore_file
  /\ ignore_file' = load_ignore_list(ignore_file).file
  /\ start_batch(available_updates, load_ignore_list(ignore_file).ret)
  /\ main_pc' = "downloading"
  /\ UNCHANGED << ignore_first, available_updates, files, scan_vars, con_vars, mod_vars, sync_vars >>

\* the batch is over: main prints "Process completed.", or the exception
\* of the batch leaves main
main_finish ==
  /\ main_pc = "downloading"
  /\ dl_pc \in { "returned", "raised" }
  /\ main_pc' = IF dl_pc = "returned" THEN "completed" ELSE "crashed"
  /\ UNCHANGED << ignore_file, ignore_first, available_updates, confirmed_file, scan_vars, con_vars, mod_vars, sync_vars, dl_vars >>

NextDownload ==
  \/ dl_call
  \/ main_load_ignore_list
  \/ main_find_updates
  \/ user_edits_ignore_file
  \/ main_start_download
  \/ main_finish
  \/ call_download_specific_release
  \/ \E i \in DOMAIN dl_tasks : task_begin(i)
  \/ \E i \in DOMAIN dl_tasks : task_attempt(i)
  \/ \E i \in DOMAIN dl_tasks : task_verify(i)
  \/ \E i \in DOMAIN dl_tasks : dl_collect(i)
  \/ dl_return
  \/ dl_raise
  \/ specific_finish

SpecDownload == Init /\ [][NextDownload]_vars

\* the batches of every list, those that hold one mod twice included
NextBatch ==
  \/ dl_call
  \/ dl_call_same_name
  \/ \E i \in DOMAIN dl_tasks : task_begin(i)
  \/ \E i \in DOMAIN dl_tasks : task_attempt(i)
  \/ \E i \in DOMAIN dl_tasks : task_verify(i)
  \/ \E i \in DOMAIN dl_tasks : dl_collect(i)
  \/ dl_return
  \/ dl_raise

SpecBatch == Init /\ [][NextBatch]_vars

(* ---------------- ChangelogEntry and GameMod.from_json on whole documents ---------------- *)

\* a changelog text is the sequence of its lines; the lines a changelog is
\* made of: "Version: 1.0.0", "Date: 2023-01-01", a heading "Features:", a
\* bullet "  - Added X", and a line of ten or more dashes
VersionLine == [t |-> "Version", text |-> "1.0.0"]

DateLine == [t |-> "Date", text |-> "2023-01-01"]

HeadingLine == [t |-> "Heading", text |-> "Features"]

BulletLine == [t |-> "Bullet", text |-> "Added X"]

DashesLine == [t |-> "Dashes", text |-> ""]

ChangelogLines == { VersionLine, DateLine, HeadingLine, BulletLine, DashesLine }

\* a str made of lines, as it is kept (the bullets with their dashes)
Text(lines) == [kind |-> "str", lines |-> lines]

RECURSIVE split_changelog(_)
\* ChangelogEntry.split_changelog: re.split(r"-{10,}", content.strip()),
\* the blocks between the lines of dashes (one more than there are such lines)
split_changelog(content) ==
  LET cuts == { i \in 1..Len(content) : content[i].t = "Dashes" }
  IN  IF cuts = {} THEN << content >>
      ELSE LET c == CHOOSE i \in cuts : \A j \in cuts : i <= j
           IN  << SubSeq(content, 1, c - 1) >> \o split_changelog(SubSeq(content, c + 1, Len(content)))

ChangelogEntry(version, date, changes) ==
  [kind |-> "ChangelogEntry", version |-> version, date |-> date, changes |-> changes]

\* ChangelogEntry.from_version_block: re.search finds the first "Version:"
\* line directly followed by a "Date:" line and a line break; the rest of
\* the block, stripped, is kept as the str changes; None without a match
from_version_block(block) ==
  LET starts == { i \in 1..Len(block) :
                    /\ block[i].t = "Version"
                    /\ i + 2 <= Len(block)
                    /\ block[i + 1].t = "Date" }
  IN  IF starts = {} THEN NoneV
      ELSE LET i == CHOOSE k \in starts : \A j \in starts : k <= j
           IN  ChangelogEntry(block[i].text, block[i + 1].text,
                              Text(SubSeq(block, i + 2, Len(block))))

\* ChangelogEntry.from_changelog_file: the entries of the blocks that match
from_changelog_file(content) ==
  LET blocks  == split_changelog(content)
      entries == [k \in 1..Len(blocks) |-> from_version_block(blocks[k])]
  IN  SelectSeq(entries, LAMBDA e : e # NoneV)

\* a key the document does not have
Missing == [kind |-> "Missing"]

\* data.get(key, default)
Get(value, default) == IF value = Missing THEN default ELSE value

\* the "info_json" objects of a release: complete, or without "dependencies"
InfoJsonDocs ==
  { [kind |-> "dict", dependencies |-> d, factorio_version |-> PyStr("2.0")] :
      d \in { Missing, [kind |-> "list", items |-> <<>>] } }

\* the entries of "releases", each optional key present or missing
ReleaseDocuments ==
  { [download_url |-> u, file_name |-> PyStr("foo_1.10.0.zip"), info_json |-> j,
     released_at |-> d, sha1 |-> "a", version |-> <<1, 10, 0>>] :
      u \in { Missing, PyStr("/download/foo") },
      j \in { Missing } \cup InfoJsonDocs,
      d \in { Missing, [kind |-> "str", t |-> 2, z |-> TRUE] } }

\* the catalog documents: the optional keys of the mod present or missing,
\* no release or one
Documents ==
  { [name |-> ModName, changelog |-> c, license |-> l, images |-> i, releases |-> rs] :
      c \in { Missing, Text(<< VersionLine, DateLine, HeadingLine, BulletLine >>) },
      l \in { Missing, [kind |-> "dict", id |-> "mit"] },
      i \in { Missing, [kind |-> "list", items |-> << [kind |-> "dict", id |-> "img"] >>] },
      rs \in { <<>> } \cup { << r >> : r \in ReleaseDocuments } }

\* the exception building Release(...) from one entry raises, "" when none:
\* release['download_url'], release['info_json'] and release['released_at']
\* index the entry (KeyError), ReleaseInfoJson(**info_json) needs both of
\* its fields (TypeError); the arguments are evaluated in this order
release_from_json_exc(release) ==
  IF release.download_url = Missing THEN "KeyError"
  ELSE IF release.info_json = Missing THEN "KeyError"
  ELSE IF release.info_json.dependencies = Missing THEN "TypeError"
  ELSE IF release.released_at = Missing THEN "KeyError"
  ELSE ""

\* GameMod.from_json on a whole document: the exception it raises, or the
\* GameMod with the fields the document gives
from_json_document(data) ==
  LET bad == { k \in 1..Len(data.releases) : release_from_json_exc(data.releases[k]) # "" }
  IN  IF bad # {}
      THEN [exc |-> release_from_json_exc(data.releases[CHOOSE k \in bad : \A j \in bad : k <= j]),
            ret |-> NoneV]
      ELSE [exc |-> "",
            ret |-> [kind |-> "GameMod", name |-> data.name,
                     changelog |-> from_changelog_file(Get(data.changelog, Text(<<>>)).lines),
                     images |-> Get(data.images, [kind |-> "list", items |-> <<>>]).items,
                     license |-> Get(data.license, NoneV),
                     releases |-> [k \in 1..Len(data.releases) |->
                        [kind |-> "Release",
                         download_url |-> data.releases[k].download_url,
                         info_json |-> data.releases[k].info_json,
                         released_at |-> parse_datetime(data.releases[k].released_at),
                         sha1 |-> data.releases[k].sha1,
                         version |-> data.releases[k].version]]]]

\* GameMod.from_json(document), one call of the pure function
call_from_json ==
  /\ op = "init"
  /\ \E data \in Documents :
       LET res == from_json_document(data)
       IN  /\ arg' = data
           /\ ret' = res.ret
           /\ exc' = res.exc
  /\ op' = "from_json"
  /\ UNCHANGED << local_mod, remote_mod, pre_local, pre_remote, prev, sync_vars, dl_vars, extra_vars >>

\* ChangelogEntry.from_changelog_file(text), one call of the pure function
call_from_changelog_file ==
  /\ op = "init"
  /\ \E content \in SeqsUpTo(ChangelogLines, MaxChangelogLines) :
       /\ arg' = content
       /\ ret' = from_changelog_file(content)
  /\ exc' = ""
  /\ op' = "from_changelog_file"
  /\ UNCHANGED << local_mod, remote_mod, pre_local, pre_remote, prev, sync_vars, dl_vars, extra_vars >>

NextParse ==
  \/ call_from_json
  \/ call_from_changelog_file

SpecParse == Init /\ [][NextParse]_vars

(* ---------------- ModFileRecognizer.process_mod_files ---------------- *)

\* the lists of names handed to process_mod_files, as parse_mod_list_json
\* makes them from mod-list.json: two mods, or one mod listed twice
ScanNameLists == { << "foo", "bar" >>, << "foo", "foo" >> }

\* the versions of the archives {name}_{version}.zip find_mod_files finds
\* for one mod, in os.listdir order
ArchiveLists == { <<>>, << <<1, 9, 0>> >>, << <<1, 9, 0>>, <<1, 10, 0>> >> }

\* FileHasher.calculate_sha1 of an archive: the digest of that file
calculate_sha1(path) == << "sha1 of", path >>

\* the Release process_mod_file builds for the archive of a mod
scanned_release(name, version) ==
  [kind |-> "Release", file_name |-> file_path(name, version),
   sha1 |-> calculate_sha1(file_path(name, version)), version |-> version,
   released_at |-> NoneV]

\* a variant in which every task appends to the release list of the first mod
owner_shared(i) == 1

\* the GameMod whose add_release task i calls: the mod it was submitted with
owner(i) == i

\* process_mod_files(mods, mods_dir_path) is called: one process_mod_file
\* task is submitted per mod, each mod a GameMod with its own empty list
scan_call ==
  /\ scan_pc = "idle"
  /\ \E names \in ScanNameLists : \E found \in [1..Len(names) -> ArchiveLists] :
       /\ scan_input' = [i \in 1..Len(names) |-> GameMod(names[i], <<>>)]
       /\ scan_mods' = [i \in 1..Len(names) |-> GameMod(names[i], <<>>)]
       /\ scan_tasks' = [i \in 1..Len(names) |->
                           [pc |-> "submitted", found |-> found[i], hashed |-> 0, result |-> Pending]]
  /\ scan_pc' = "running"
  /\ scan_handled' = <<>>
  /\ UNCHANGED << main_vars, con_vars, mod_vars, sync_vars, dl_vars >>

\* a task runs find_mod_files: ModProcessingError when the directory is
\* gone, else the archives of its mod; with none the task returns its mod
scan_find(i) ==
  /\ scan_pc = "running"
  /\ scan_tasks[i].pc = "submitted"
  /\ \E dir_ok \in BOOLEAN :
       scan_tasks' = [scan_tasks EXCEPT ![i] =
          IF ~dir_ok
          THEN [@ EXCEPT !.pc = "done", !.result = Raised("ModProcessingError")]
          ELSE IF Len(@.found) = 0 THEN [@ EXCEPT !.pc = "done", !.result = Returned(NoneV)]
          ELSE [@ EXCEPT !.pc = "hashing"]]
  /\ UNCHANGED << scan_pc, scan_input, scan_mods, scan_handled, main_vars, con_vars, mod_vars, sync_vars, dl_vars >>

\* one pass of the loop of process_mod_file: the next archive is hashed
\* (ModProcessingError when it cannot be read) and its Release is appended
\* with mod.add_release; after the last archive the task returns its mod
scan_hash(i) ==
  /\ scan_pc = "running"
  /\ scan_tasks[i].pc = "hashing"
  /\ \E read_ok \in BOOLEAN :
       LET t == scan_tasks[i]
           n == t.hashed + 1
       IN  IF ~read_ok
           THEN /\ scan_tasks' = [scan_tasks EXCEPT ![i] =
                                    [@ EXCEPT !.pc = "done", !.result = Raised("ModProcessingError")]]
                /\ UNCHANGED scan_mods
           ELSE /\ scan_mods' = [scan_mods EXCEPT ![owner(i)].releases =
                                   Append(@, scanned_release(scan_input[i].name, t.found[n]))]
                /\ scan_tasks' = [scan_tasks EXCEPT ![i] =
                                    IF n = Len(t.found)
                                    THEN [@ EXCEPT !.hashed = n, !.pc = "done", !.result = Returned(NoneV)]
                                    ELSE [@ EXCEPT !.hashed = n]]
  /\ UNCHANGED << scan_pc, scan_input, scan_handled, main_vars, con_vars, mod_vars, sync_vars, dl_vars >>

\* the futures consumed so far
ScanHandled == { scan_handled[k] : k \in DOMAIN scan_handled }

\* one pass of the as_completed loop: future.result() in a try whose except
\* clauses print the error of the task (console.print_error) and go on
scan_collect(i) ==
  /\ scan_pc = "running"
  /\ scan_tasks[i].pc = "done"
  /\ i \notin ScanHandled
  /\ scan_handled' = Append(scan_handled, i)
  /\ UNCHANGED << scan_pc, scan_input, scan_mods, scan_tasks, main_vars, con_vars, mod_vars, sync_vars, dl_vars >>

\* every future has been consumed: process_mod_files returns mods
scan_return ==
  /\ scan_pc = "running"
  /\ ScanHandled = DOMAIN scan_tasks
  /\ scan_pc' = "returned"
  /\ UNCHANGED << scan_input, scan_mods, scan_tasks, scan_handled, main_vars, con_vars, mod_vars, sync_vars, dl_vars >>

NextScan ==
  \/ scan_call
  \/ \E i \in DOMAIN scan_tasks : scan_find(i)
  \/ \E i \in DOMAIN scan_tasks : scan_hash(i)
  \/ \E i \in DOMAIN scan_tasks : scan_collect(i)
  \/ scan_return

SpecScan == Init /\ [][NextScan]_vars

(* ---------------- SingletonMeta and ConsoleSingleton ---------------- *)

\* the object the n-th run of ConsoleSingleton.__init__ initialises
ConsoleObject(n) == [kind |-> "ConsoleSingleton", id |-> n]

\* a thread calls ConsoleSingleton(): SingletonMeta.__call__ begins
con_call ==
  /\ Len(threads) < NumThreads
  /\ threads' = Append(threads, [pc |-> "check", obj |-> NoneV, got |-> NoneV])
  /\ UNCHANGED << instance, inits, main_vars, scan_vars, mod_vars, sync_vars, dl_vars >>

\* "if cls._instance is None": the thread reads the class attribute
con_check(t) ==
  /\ threads[t].pc = "check"
  /\ threads' = [threads EXCEPT ![t].pc = IF instance = NoneV THEN "construct" ELSE "return"]
  /\ UNCHANGED << instance, inits, main_vars, scan_vars, mod_vars, sync_vars, dl_vars >>

\* super().__call__(*args, **kwargs): a new object is made and the body of
\* __init__ runs on it
con_construct(t) ==
  /\ threads[t].pc = "construct"
  /\ inits' = inits + 1
  /\ threads' = [threads EXCEPT ![t].pc = "assign", ![t].obj = ConsoleObject(inits + 1)]
  /\ UNCHANGED << instance, main_vars, scan_vars, mod_vars, sync_vars, dl_vars >>

\* "cls._instance = ...": the object is stored in the class attribute
con_assign(t) ==
  /\ threads[t].pc = "assign"
  /\ instance' = threads[t].obj
  /\ threads' = [threads EXCEPT ![t].pc = "return"]
  /\ UNCHANGED << inits, main_vars, scan_vars, mod_vars, sync_vars, dl_vars >>

\* "return cls._instance": the caller gets what the attribute holds then
con_return(t) ==
  /\ threads[t].pc = "return"
  /\ threads' = [threads EXCEPT ![t].pc = "done", ![t].got = instance]
  /\ UNCHANGED << instance, inits, main_vars, scan_vars, mod_vars, sync_vars, dl_vars >>

NextConsole ==
  \/ con_call
  \/ \E t \in DOMAIN threads : con_check(t)
  \/ \E t \in DOMAIN threads : con_construct(t)
  \/ \E t \in DOMAIN threads : con_assign(t)
  \/ \E t \in DOMAIN threads : con_return(t)

SpecConsole == Init /\ [][NextConsole]_vars

(* ---------------- the properties ---------------- *)

\* the numbers of a version string, zero beyond its length
NumAt(v, i) == IF i <= Len(v) THEN v[i] ELSE 0

\* a is below b, comparing number by number
NumLess(a, b) ==
  \E k \in 1..(Len(a) + Len(b)) :
     /\ NumAt(a, k) < NumAt(b, k)
     /\ \A j \in 1..(k - 1) : NumAt(a, j) = NumAt(b, j)

AllValid(rs) == \A i \in 1..Len(rs) : VersionValid(rs[i].version)

\* every release carries a released_at, as the catalog's releases do
AllDated(rs) == \A i \in 1..Len(rs) : rs[i].released_at # NoneV

\* r's version is above the version of every release of rs
AboveAll(r, rs) == \A i \in 1..Len(rs) : NumLess(rs[i].version, r.version)

\* r's version is not below the version of any release of rs
NotBelowAny(r, rs) == \A i \in 1..Len(rs) : ~NumLess(r.version, rs[i].version)

\* the releases of remote_rs whose version is above every version of local_rs
NewerReleases(local_rs, remote_rs) == SelectSeq(remote_rs, LAMBDA r : AboveAll(r, local_rs))

\* the list get_latest_release was last called on
Queried == IF arg = "local" THEN pre_local ELSE pre_remote

\* released_at as an instant, a missing one being the least
InstantOf(r) == IF r.released_at.kind = "None" THEN 0 ELSE r.released_at.t

\* C1: when find_updates_of_mods_list has returned, every mod whose fetch
\* gave a remote record (its releases dated) with a release newer than all
\* local ones is in the returned list, with exactly the newer releases.
C1_UpdatesAreReturned ==
  sync_pc = "returned" =>
    \A i \in 1..Len(sync_input) :
       (/\ futures[i].kind = "GameMod"
        /\ AllDated(futures[i].releases)
        /\ NewerReleases(sync_input[i].releases, futures[i].releases) # <<>>)
       => \E k \in 1..Len(updated_mods) :
             /\ updated_mods[k].name = sync_input[i].name
             /\ updated_mods[k].releases
                  = NewerReleases(sync_input[i].releases, futures[i].releases)

\* C2: compare_with_remote on well-formed versions (or whenever it returns)
\* returns; it leaves in remote_mod exactly the remote releases whose
\* version is strictly above the local latest version (all of them when the
\* local mod has none) and returns remote_mod, or None when none is left.
C2_CompareKeepsStrictlyNewer ==
  (/\ op = "compare_with_remote"
   /\ exc = "" \/ (AllValid(pre_local) /\ AllValid(pre_remote)))
  => /\ exc = ""
     /\ remote_mod.releases
          = (IF pre_local = <<>> THEN pre_remote ELSE NewerReleases(pre_local, pre_remote))
     /\ ret = (IF remote_mod.releases = <<>> THEN NoneV ELSE remote_mod)

\* a reconciliation that dropped a release whose version equals the local
\* latest and kept a newer one
C2_Witness ==
  /\ op = "compare_with_remote"
  /\ exc = ""
  /\ pre_local # <<>>
  /\ ret = remote_mod
  /\ \E i \in 1..Len(pre_remote) :
        /\ NotBelowAny(pre_remote[i], pre_local)
        /\ ~AboveAll(pre_remote[i], pre_local)

\* C3: get_latest_release on a non-empty list of well-formed versions
\* returns a release of the list whose version is not below any other's.
C3_LatestHasGreatestVersion ==
  (op = "get_latest_release" /\ Queried # <<>> /\ AllValid(Queried))
  => /\ exc = ""
     /\ \E i \in 1..Len(Queried) : ret = Queried[i]
     /\ NotBelowAny(ret, Queried)

\* C4: get_latest_release on a non-empty list of well-formed versions
\* returns, among the releases of the highest version, one whose
\* released_at is the latest, a missing released_at being the least.
C4_TieBrokenByTimestamp ==
  (op = "get_latest_release" /\ Queried # <<>> /\ AllValid(Queried))
  => /\ exc = ""
     /\ \E i \in 1..Len(Queried) : ret = Queried[i]
     /\ NotBelowAny(ret, Queried)
     /\ \A i \in 1..Len(Queried) :
          NotBelowAny(Queried[i], Queried) => InstantOf(Queried[i]) <= InstantOf(ret)

BackfilledDate(release, remote_rs) ==
  LET hits == { j \in 1..Len(remote_rs) : remote_rs[j].sha1 = release.sha1 }
  IN  IF hits = {} THEN Datetime(SentinelInstant, TRUE)
      ELSE remote_rs[CHOOSE j \in hits : \A k \in hits : j <= k].released_at

\* C6: after find_new_releases_from_remote every local release carries the
\* released_at of the remote release with its hash, or the sentinel, and the
\* call has not failed with the back-fill's error.
C6_BackfillSetsTimestamps ==
  op = "find_new_releases_from_remote" =>
    \A i \in 1..Len(pre_local) :
       local_mod.releases[i].released_at = BackfilledDate(pre_local[i], pre_remote)

\* C7: every release find_new_releases_from_remote retains has a version
\* above every local version.
C7_RetainedAreNewer ==
  (op = "find_new_releases_from_remote" /\ exc = "") =>
    \A i \in 1..Len(remote_mod.releases) : AboveAll(remote_mod.releases[i], pre_local)

\* the case of C7: the call has retained a release
C7_Retained ==
  op = "find_new_releases_from_remote" /\ exc = "" /\ remote_mod.releases # <<>>

\* C8: with no local release and a remote release (the remote releases
\* well-formed and dated), find_new_releases_from_remote returns remote_mod
\* with its releases as they were.
C8_EmptyLocalKeepsAll ==
  (/\ op = "find_new_releases_from_remote"
   /\ pre_local = <<>>
   /\ pre_remote # <<>>
   /\ AllValid(pre_remote)
   /\ AllDated(pre_remote))
  => /\ exc = ""
     /\ ret = remote_mod
     /\ remote_mod.releases = pre_remote

\* C9: with no remote release, find_new_releases_from_remote returns None.
C9_NoRemoteReleasesNoUpdate ==
  (op = "find_new_releases_from_remote" /\ pre_remote = <<>>)
  => (exc = "" /\ ret = NoneV)

\* C10: compare_with_remote called again on what it has just returned (or
\* left, when it returned None) returns the same and filters nothing more.
C10_CompareIdempotent ==
  (op = "compare_with_remote" /\ prev.kind = "Returned")
  => /\ exc = ""
     /\ ret = prev.ret
     /\ remote_mod.releases = pre_remote

\* a second reconciliation after one that returned an update
C10_Witness ==
  /\ op = "compare_with_remote"
  /\ prev.kind = "Returned"
  /\ prev.ret # NoneV
  /\ pre_local # <<>>

\* C11: a reconciliation of a local mod against a remote mod of another
\* name fails with an error: it filters nothing and returns nothing.
C11_NameMismatchFailsFast ==
  (/\ op \in { "compare_with_remote", "find_new_releases_from_remote" }
   /\ remote_mod.name # local_mod.name)
  => /\ exc # ""
     /\ remote_mod.releases = pre_remote

\* the positions of the releases of rs whose sha1 is h
WithSha1(rs, h) == { i \in 1..Len(rs) : rs[i].sha1 = h }

\* C12: find_release_by_sha1(h) returns the release that is first in
\* stored order among those whose sha1 is h, and None when there is none.
C12_FirstReleaseWithSha1 ==
  op = "find_release_by_sha1" =>
    IF WithSha1(pre_remote, arg) = {} THEN ret = NoneV
    ELSE \E i \in WithSha1(pre_remote, arg) :
            /\ \A j \in WithSha1(pre_remote, arg) : i <= j
            /\ ret = pre_remote[i]

\* the bytes the last download attempt of a task stored, None when it stored none
Downloaded(t) ==
  IF Len(t.attempts) > 0 /\ t.attempts[Len(t.attempts)] \in { "zipA", "zipB" }
  THEN PyStr(t.attempts[Len(t.attempts)]) ELSE NoneV

\* the SHA-1 of the two bodies, as the catalog lists them
Sha1OfBody(bytes) == IF bytes = "zipA" THEN "a" ELSE "b"

\* the task has returned a file path
ReturnedPath(t) == t.pc = "done" /\ t.result.kind = "Returned" /\ t.result.ret # NoneV

\* the task has downloaded a file whose SHA-1 is not the release's
Mismatch(t) ==
  /\ t.pc = "done"
  /\ t.hashed # NoneV
  /\ Downloaded(t) # NoneV
  /\ Sha1OfBody(Downloaded(t).s) # t.release.sha1

\* C13: a download task (download_latest_release or
\* download_specific_release) returns a file path only when the SHA-1 of
\* the file it downloaded is the sha1 of its release, the latest one for
\* download_latest_release; after a mismatch it has raised, and the batch
\* does not print it as downloaded.
C13_PathOnlyWhenHashMatches ==
  \A i \in DOMAIN dl_tasks :
     LET t == dl_tasks[i]
     IN  /\ ReturnedPath(t) =>
               /\ Downloaded(t) # NoneV
               /\ Sha1OfBody(Downloaded(t).s) = t.release.sha1
               /\ t.hashed = PyStr(t.release.sha1)
               /\ \E k \in 1..Len(t.mod.releases) : t.release = t.mod.releases[k]
               /\ t.call = "latest" => NotBelowAny(t.release, t.mod.releases)
         /\ Mismatch(t) =>
               /\ t.result.kind = "Raised"
               /\ i \in DOMAIN dl_report => dl_report[i] # "Successfully downloaded"

\* a batch in which one task returned its path and another met a mismatch
C13_Witness ==
  /\ dl_pc = "returned"
  /\ \E i, j \in DOMAIN dl_tasks : ReturnedPath(dl_tasks[i]) /\ Mismatch(dl_tasks[j])

\* C14: the error of a hash mismatch differs in type from the error of a
\* network failure during the download.
C14_MismatchDistinctFromNetworkError ==
  \A i \in DOMAIN dl_tasks : \A j \in DOMAIN dl_tasks :
     (/\ Mismatch(dl_tasks[i])
      /\ dl_tasks[j].pc = "done"
      /\ Len(dl_tasks[j].attempts) = 2
      /\ dl_tasks[j].attempts[2] \in { "HTTPError", "ConnectionError", "Timeout" })
     => /\ dl_tasks[i].result.kind = "Raised"
        /\ dl_tasks[j].result.kind = "Raised"
        /\ dl_tasks[i].result.exc # dl_tasks[j].result.exc

\* C15: download_latest_releases does not raise, whatever a task of the
\* batch failed with, and when it has returned it has collected the result
\* of every task.
C15_BatchSurvivesFailures ==
  dl_input # <<>> =>
    /\ dl_pc \notin { "aborting", "raised" }
    /\ dl_pc = "returned" => DOMAIN dl_report = DOMAIN dl_tasks

\* C18: a download makes at most two attempts; once its attempts are over,
\* it has made a second one exactly when the first failed with an HTTP
\* error, a connection error or a timeout; the failure of a second attempt
\* is what the download raises.
C18_AtMostOneRetry ==
  \A i \in DOMAIN dl_tasks :
     LET t == dl_tasks[i]
     IN  /\ Len(t.attempts) <= 2
         /\ (t.pc \in { "downloaded", "done" } /\ Len(t.attempts) > 0) =>
               (Len(t.attempts) = 2 <=> t.attempts[1] \in { "HTTPError", "ConnectionError", "Timeout" })
         /\ (Len(t.attempts) = 2 /\ Downloaded(t) = NoneV) =>
               /\ t.pc = "done"
               /\ t.result.kind = "Raised"
               /\ t.result.exc = (IF t.attempts[2] \in { "HTTPError", "ConnectionError", "Timeout" }
                                   THEN "DownloadError"
                                   ELSE IF t.attempts[2] = "empty" THEN "EmptyFileError"
                                   ELSE t.attempts[2])

\* a download whose first attempt timed out and whose second failed too
C18_Witness ==
  \E i \in DOMAIN dl_tasks :
     /\ Len(dl_tasks[i].attempts) = 2
     /\ dl_tasks[i].attempts[1] = "Timeout"
     /\ dl_tasks[i].attempts[2] = "ConnectionError"
     /\ dl_tasks[i].result.kind = "Raised"

\* the fetch or the reconciliation of mod i failed
SyncFailed(i) ==
  \/ futures[i] = NoneV
  \/ futures[i].kind = "Raised"
  \/ /\ futures[i].kind = "GameMod"
     /\ find_new_releases_from_remote(sync_input[i], futures[i]).exc # ""

\* the fetch of mod i gave a record (its releases dated) with a release
\* newer than every local one
HasUpdate(i) ==
  /\ futures[i].kind = "GameMod"
  /\ AllDated(futures[i].releases)
  /\ NewerReleases(sync_input[i].releases, futures[i].releases) # <<>>

\* C16: when find_updates_of_mods_list has returned, every mod has been
\* consumed, and the update of a mod is in the result although the fetch of
\* another mod returned no data or raised.
C16_SiblingsUnaffected ==
  sync_pc = "returned" =>
    /\ Handled = 1..Len(sync_input)
    /\ \A i, j \in 1..Len(sync_input) :
          (/\ i # j
           /\ futures[i] = NoneV \/ futures[i].kind = "Raised"
           /\ HasUpdate(j))
          => \E k \in 1..Len(updated_mods) :
                /\ updated_mods[k].name = sync_input[j].name
                /\ updated_mods[k].releases
                     = NewerReleases(sync_input[j].releases, futures[j].releases)

\* C17: when every mod of the batch failed, the value returned holds one
\* failure record per mod.
C17_FailuresAreReported ==
  (sync_pc = "returned" /\ \A i \in 1..Len(sync_input) : SyncFailed(i)) =>
    \A i \in 1..Len(sync_input) :
       \E k \in 1..Len(updated_mods) :
          /\ updated_mods[k].kind # "GameMod"
          /\ updated_mods[k].name = sync_input[i].name

\* C19: get_mod_details returns no data only after a second request.
C19_FetchRetriedOnce ==
  \A i \in 1..Len(futures) : futures[i] = NoneV => requests[i] = 2

\* what the reconciliation of each mod alone contributes, whatever the order
ExpectedUpdates ==
  { find_new_releases_from_remote(sync_input[i], futures[i]).ret :
      i \in { j \in 1..Len(sync_input) :
                /\ futures[j].kind = "GameMod"
                /\ find_new_releases_from_remote(sync_input[j], futures[j]).exc = ""
                /\ find_new_releases_from_remote(sync_input[j], futures[j]).ret # NoneV } }

C21_MalformedVersionFails ==
  (\/ op = "get_latest_release" /\ ~AllValid(Queried)
   \/ op = "compare_with_remote" /\ (~AllValid(pre_local) \/ ~AllValid(pre_remote)))
  => /\ exc = "InvalidVersion"
     /\ op = "compare_with_remote" => remote_mod.releases = pre_remote

\* the document's optional keys that are missing come out absent
AbsentWhereMissing ==
  /\ arg.changelog = Missing => ret.changelog = <<>>
  /\ arg.images = Missing => ret.images = <<>>
  /\ arg.license = Missing => ret.license = NoneV
  /\ Len(ret.releases) = Len(arg.releases)
  /\ \A k \in 1..Len(arg.releases) :
       /\ arg.releases[k].download_url = Missing => ret.releases[k].download_url = NoneV
       /\ arg.releases[k].released_at = Missing => ret.releases[k].released_at = NoneV
       /\ arg.releases[k].info_json = Missing => ret.releases[k].info_json = NoneV

\* C22: GameMod.from_json builds the record from every document, whichever
\* optional keys are missing (download_url, released_at, info_json or its
\* dependencies of a release; changelog, license, images of the mod): no
\* error, the name kept, the missing fields absent
C22_FromJsonAcceptsMissingOptionals ==
  op = "from_json" =>
    /\ exc = ""
    /\ ret.name = arg.name
    /\ AbsentWhereMissing

\* a block of the grammar: a Version line, a Date line, then a body of
\* headings and bullets that begins with a heading
MatchesGrammar(block) ==
  /\ Len(block) >= 3
  /\ block[1].t = "Version"
  /\ block[2].t = "Date"
  /\ block[3].t = "Heading"
  /\ \A i \in 3..Len(block) : block[i].t \in { "Heading", "Bullet" }

RECURSIVE Sections(_)
\* the body as a mapping: each heading with the ordered list of the lines
\* that follow it up to the next heading, their leading dash stripped
Sections(body) ==
  IF body = <<>> THEN <<>>
  ELSE LET later == { i \in 2..Len(body) : body[i].t = "Heading" }
           stop  == IF later = {} THEN Len(body) + 1
                    ELSE CHOOSE i \in later : \A j \in later : i <= j
       IN  << [heading |-> body[1].text,
               items |-> [k \in 1..(stop - 2) |-> body[k + 1].text]] >>
           \o Sections(SubSeq(body, stop, Len(body)))

\* the entry the grammar describes for a block
EntryOf(block) ==
  ChangelogEntry(block[1].text, block[2].text,
                 [kind |-> "dict", sections |-> Sections(SubSeq(block, 3, Len(block)))])

\* C24: a changelog whose blocks all match the grammar parses to one entry
\* per block, in input order, each with the block's version and date and
\* with changes mapping every heading to the list of the lines under it
C24_ChangelogEntriesStructured ==
  (/\ op = "from_changelog_file"
   /\ \A k \in 1..Len(split_changelog(arg)) : MatchesGrammar(split_changelog(arg)[k]))
  => ret = [k \in 1..Len(split_changelog(arg)) |-> EntryOf(split_changelog(arg)[k])]

\* the download attempts of a task that opened the file for writing
Wrote(t) ==
  \E k \in 1..Len(t.attempts) : t.attempts[k] \in Contents \cup { "empty", "ConnectionError" }

\* C28: once a download_latest_release task has finished, a file it wrote
\* is at {name}_{version}.zip only if the SHA-1 of that file is the sha1 of
\* the release: no file that failed the verification and no partial or
\* empty file of a failed attempt is left there
C28_NoUnverifiedFileLeft ==
  \A i \in DOMAIN dl_tasks :
     LET t == dl_tasks[i]
     IN  (t.call = "latest" /\ t.pc = "done" /\ Wrote(t)) =>
           LET path == file_path(t.mod.name, t.release.version)
           IN  path \in DOMAIN files => sha1_of(files[path]) = t.release.sha1

\* C29: download_latest_releases prints a mod as successfully downloaded
\* only if its task downloaded a file and verified its hash; a mod for
\* which nothing was downloaded is not printed as a success
C29_SuccessOnlyWhenVerified ==
  \A i \in DOMAIN dl_report :
     dl_report[i] = "Successfully downloaded" =>
       /\ ReturnedPath(dl_tasks[i])
       /\ dl_tasks[i].hashed = PyStr(dl_tasks[i].release.sha1)

\* the task is between the start of its download and the verification: it
\* writes, or has written and will read, the file at its path
Writing(t) == t.pc \in { "attempt", "downloaded" }

\* C23: in one download_latest_releases batch the tasks that run at the
\* same time write different files: the paths {name}_{version}.zip of two
\* tasks of the batch differ
C23_DistinctPaths ==
  \A i \in DOMAIN dl_tasks : \A j \in DOMAIN dl_tasks :
     (i # j /\ Writing(dl_tasks[i]) /\ Writing(dl_tasks[j])) =>
       file_path(dl_tasks[i].mod.name, dl_tasks[i].release.version)
         # file_path(dl_tasks[j].mod.name, dl_tasks[j].release.version)

\* the names of an ignore list
Ignored(ignore_list) == { ignore_list[k] : k \in DOMAIN ignore_list }

\* C27: a download_latest_releases batch has no task for a mod named in its
\* ignore list and exactly one task for every other mod of its input; when
\* main started the batch, its ignore list is the one the file held when
\* the user confirmed, whatever main read before the update check
C27_IgnoredNeverDownloaded ==
  /\ dl_pc \in { "running", "aborting", "returned", "raised" } =>
       /\ \A i \in DOMAIN dl_tasks :
            dl_tasks[i].call = "latest" =>
              /\ dl_tasks[i].mod.name \notin Ignored(dl_ignore)
              /\ \E k \in DOMAIN dl_input : dl_tasks[i].mod = dl_input[k]
       /\ \A k \in DOMAIN dl_input :
            dl_input[k].name \notin Ignored(dl_ignore) =>
              Cardinality({ i \in DOMAIN dl_tasks : dl_tasks[i].mod.name = dl_input[k].name }) = 1
  /\ main_pc \in { "downloading", "completed", "crashed" } =>
       /\ dl_input = available_updates
       /\ dl_ignore = IF confirmed_file.exists THEN confirmed_file.lines ELSE <<>>

\* main runs a batch whose ignore list, read after the confirmation, names
\* a mod with an update and is not the list read before the update check
C27_Witness ==
  /\ main_pc = "downloading"
  /\ dl_ignore # ignore_first
  /\ \E k \in DOMAIN dl_input : dl_input[k].name \in Ignored(dl_ignore)
  /\ Len(dl_tasks) = 1
  /\ dl_tasks[1].pc = "done"

\* C25: the scan tasks share no list: at every moment the releases of each
\* mod are those of the archives its own task has hashed so far, in that
\* order, and when process_mod_files has returned, the list it returns
\* holds the input mods, each once and in input order, whatever the order
\* in which the tasks ended and whichever of them failed
C25_ScanTasksIndependent ==
  /\ \A k \in DOMAIN scan_mods :
       scan_mods[k].releases =
         [n \in 1..scan_tasks[k].hashed |-> scanned_release(scan_input[k].name, scan_tasks[k].found[n])]
  /\ scan_pc = "returned" =>
       /\ Len(scan_mods) = Len(scan_input)
       /\ \A k \in DOMAIN scan_input : scan_mods[k].name = scan_input[k].name

\* the scan has returned after the second task ended first and the first
\* failed on its second archive, both having appended releases
C25_Witness ==
  /\ scan_pc = "returned"
  /\ scan_handled = << 2, 1 >>
  /\ scan_tasks[1].result = Raised("ModProcessingError")
  /\ scan_tasks[1].hashed = 1
  /\ scan_tasks[2].hashed = 2
  /\ scan_tasks[2].result = Returned(NoneV)

\* C26: however the calls of ConsoleSingleton() from several threads
\* interleave, the body of __init__ runs at most once and the callers that
\* have returned all hold the same instance
C26_SingletonThreadSafe ==
  /\ inits <= 1
  /\ \A t \in DOMAIN threads : \A u \in DOMAIN threads :
       (threads[t].pc = "done" /\ threads[u].pc = "done") => threads[t].got = threads[u].got

====
